---------------------------- MODULE Spec2Model ----------------------------
(***************************************************************************)
(* A model of the rdb repository core: the content-addressed object store  *)
(* (internal/repo) with its repository API, and the init, commit, log, add *)
(* and status commands.                                                    *)
(*                                                                         *)
(* Files are sequences of tokens.  A token stands for one byte of a header *)
(* or of a payload, or for one opaque string (a hash, a name) inside a     *)
(* JSON document.  SHA-256 is modelled as a collision-free digest.         *)
(***************************************************************************)
EXTENDS Integers, Sequences, FiniteSets, TLC

VARIABLES
    objects,    \* .rdb/objects: path (hash) -> file content
    refs,       \* .rdb/refs/heads: branch -> file content
    head,       \* .rdb/HEAD: <<"absent">> or the file content
    config,     \* .rdb/config.json: <<"absent">> or the file content
    clock,      \* the last reading of time.Now()
    last,       \* the last operation, its inputs and what it returned
    hist,       \* hashes of the commits that commit operations created
    nops,       \* operations run so far
    nfaults,    \* I/O faults injected so far
    procs,      \* the processes of the concurrent specification
    worktree,   \* the files of the working directory: path -> file content
    staged      \* the paths add accepted: content then, and whether a commit followed

vars ==
    <<objects, refs, head, config, clock, last, hist, nops, nfaults, procs, worktree, staged>>

-----------------------------------------------------------------------------
(* Bounds of the model *)

MaxOps == 3
MaxFaults == 1
MaxClock == 1
MaxPayloadLen == 1

-----------------------------------------------------------------------------
(* Tokens *)

SP == " "
NUL == "NUL"
ABSENT == <<"absent">>

blob == <<"b", "l", "o", "b">>
tree == <<"t", "r", "e", "e">>
commit == <<"c", "o", "m", "m", "i", "t">>
asset == <<"a", "s", "s", "e", "t">>
Kinds == {blob, tree, commit, asset}

PayloadBytes == {"x", "y"}

DigitChars == <<"0", "1", "2", "3", "4", "5", "6", "7", "8", "9">>

IsDigit(c) == \E i \in 1..10 : DigitChars[i] = c

DigitValue(c) == (CHOOSE i \in 1..10 : DigitChars[i] = c) - 1

\* fmt's %d of a non-negative int
RECURSIVE Itoa(_)
Itoa(n) ==
    IF n < 10 THEN <<DigitChars[n + 1]>>
    ELSE Itoa(n \div 10) \o <<DigitChars[(n % 10) + 1]>>

\* the value of a non-empty run of decimal digits
RECURSIVE Atoi(_)
Atoi(ds) ==
    IF Len(ds) = 0 THEN 0
    ELSE Atoi(SubSeq(ds, 1, Len(ds) - 1)) * 10 + DigitValue(ds[Len(ds)])

\* the first index of token c in s at or after position from, 0 when there is none
RECURSIVE IndexFrom(_, _, _)
IndexFrom(s, c, from) ==
    IF from > Len(s) THEN 0
    ELSE IF s[from] = c THEN from
    ELSE IndexFrom(s, c, from + 1)

\* the first index at or after from whose token is not a space, Len(s)+1 when none
RECURSIVE SkipSpace(_, _)
SkipSpace(s, from) ==
    IF from > Len(s) THEN from
    ELSE IF s[from] = SP THEN SkipSpace(s, from + 1)
    ELSE from

\* the first index at or after from whose token is a space, Len(s)+1 when none
RECURSIVE WordEnd(_, _)
WordEnd(s, from) ==
    IF from > Len(s) THEN from
    ELSE IF s[from] = SP THEN from
    ELSE WordEnd(s, from + 1)

\* the first index at or after from whose token is not a digit, Len(s)+1 when none
RECURSIVE DigitsEnd(_, _)
DigitsEnd(s, from) ==
    IF from > Len(s) THEN from
    ELSE IF IsDigit(s[from]) THEN DigitsEnd(s, from + 1)
    ELSE from

Put(store, path, content) ==
    [p \in (DOMAIN store) \cup {path} |-> IF p = path THEN content ELSE store[p]]

-----------------------------------------------------------------------------
(* The object store *)

\* hex.EncodeToString(sha256.Sum256(data)): a digest that is a function of the
\* data alone and that no two different inputs share
Sha256Hex(data) == "sha256:" \o ToString(data)

\* Header without the \000 that ends it
Header_NoSeparator(objType, n) == objType \o <<SP>> \o Itoa(n)

\* fmt.Sprintf("%s %d\000", objType, len(data))
Header(objType, n) == objType \o <<SP>> \o Itoa(n) \o <<NUL>>

\* the bytes writeObject hands to os.WriteFile
ObjectContent(objType, data) == Header(objType, Len(data)) \o data

NoFault == [step |-> "none", mode |-> "open"]

\* How a failing os.WriteFile leaves the file: "open" (the open failed, the file
\* is as it was), "trunc" (truncated, nothing written), "half" and "short" (the
\* write stopped after half of the content, or one token before its end)
CutModes == {"open", "trunc", "half", "short"}

Cut(content, mode) ==
    CASE mode = "open" -> -1
      [] mode = "trunc" -> 0
      [] mode = "half" -> Len(content) \div 2
      [] OTHER -> IF Len(content) = 0 THEN 0 ELSE Len(content) - 1

\* os.WriteFile(path, content) that fails in the given mode, on the file "was"
WriteFileFault(was, content, mode) ==
    IF Cut(content, mode) < 0 THEN was ELSE SubSeq(content, 1, Cut(content, mode))

\* the fault a callee sees: the caller's fault when it names one of the callee's steps
FaultFor(fault, mkdirStep, writeStep) ==
    IF fault.step = mkdirStep THEN [step |-> "mkdir", mode |-> "open"]
    ELSE IF fault.step = writeStep THEN [step |-> "write", mode |-> fault.mode]
    ELSE NoFault

\* writeObject: the store, the hash and the error it returns.  fault.step is
\* "mkdir" or "write" when that call fails in this run.
writeObject(store, objType, data, fault) ==
    LET hashStr == Sha256Hex(data)
        content == ObjectContent(objType, data)
    IN  IF fault.step = "mkdir"
        THEN [store |-> store, hash |-> "", err |-> "failed to create object directory"]
        ELSE IF fault.step = "write"
        THEN [store |-> IF Cut(content, fault.mode) < 0 THEN store
                        ELSE Put(store, hashStr, WriteFileFault(<<>>, content, fault.mode)),
              hash |-> "", err |-> "failed to write object"]
        ELSE [store |-> Put(store, hashStr, content), hash |-> hashStr, err |-> "ok"]

ReadError(msg) == [err |-> msg, objType |-> <<>>, data |-> <<>>]

\* fmt.Sscanf(headerStr, "%s %d", &objType, &size)
Sscanf(headerStr) ==
    LET w0 == SkipSpace(headerStr, 1)
        w1 == WordEnd(headerStr, w0)
        d0 == SkipSpace(headerStr, w1)
        d1 == DigitsEnd(headerStr, d0)
    IN  IF w1 = w0 THEN [ok |-> FALSE, objType |-> <<>>, size |-> 0]
        ELSE IF d1 = d0 THEN [ok |-> FALSE, objType |-> SubSeq(headerStr, w0, w1 - 1), size |-> 0]
        ELSE [ok |-> TRUE, objType |-> SubSeq(headerStr, w0, w1 - 1),
              size |-> Atoi(SubSeq(headerStr, d0, d1 - 1))]

\* readObject that takes a file it cannot open for an empty one
readObject_MissingIsEmpty(store, hash) ==
    IF hash = "" THEN ReadError("panic: slice bounds out of range")
    ELSE
        LET data == IF hash \in DOMAIN store THEN store[hash] ELSE <<>>
            nullIndex == IndexFrom(data, NUL, 1)
        IN  IF nullIndex = 0 THEN ReadError("invalid object format: no null separator found")
            ELSE
                LET hdr == Sscanf(SubSeq(data, 1, nullIndex - 1))
                    objData == SubSeq(data, nullIndex + 1, Len(data))
                IN  IF ~hdr.ok THEN ReadError("failed to parse object header")
                    ELSE IF Len(objData) # hdr.size THEN ReadError("object size mismatch")
                    ELSE [err |-> "ok", objType |-> hdr.objType, data |-> objData]

\* readObject without the comparison of the declared size with the payload
readObject_NoSizeCheck(store, hash) ==
    IF hash = "" THEN ReadError("panic: slice bounds out of range")
    ELSE IF hash \notin DOMAIN store THEN ReadError("failed to open object")
    ELSE
        LET data == store[hash]
            nullIndex == IndexFrom(data, NUL, 1)
        IN  IF nullIndex = 0 THEN ReadError("invalid object format: no null separator found")
            ELSE
                LET hdr == Sscanf(SubSeq(data, 1, nullIndex - 1))
                    objData == SubSeq(data, nullIndex + 1, Len(data))
                IN  IF ~hdr.ok THEN ReadError("failed to parse object header")
                    ELSE [err |-> "ok", objType |-> hdr.objType, data |-> objData]

\* readObject: the kind and payload stored under hash, or the error
readObject(store, hash) ==
    IF hash = "" THEN ReadError("panic: slice bounds out of range")
    ELSE IF hash \notin DOMAIN store THEN ReadError("failed to open object")
    ELSE
        LET data == store[hash]
            nullIndex == IndexFrom(data, NUL, 1)
        IN  IF nullIndex = 0 THEN ReadError("invalid object format: no null separator found")
            ELSE
                LET hdr == Sscanf(SubSeq(data, 1, nullIndex - 1))
                    objData == SubSeq(data, nullIndex + 1, Len(data))
                IN  IF ~hdr.ok THEN ReadError("failed to parse object header")
                    ELSE IF Len(objData) # hdr.size THEN ReadError("object size mismatch")
                    ELSE [err |-> "ok", objType |-> hdr.objType, data |-> objData]


-----------------------------------------------------------------------------
(* JSON documents: json.Marshal and json.Unmarshal of the repository's structs *)

\* time.Time as json.Marshal and time.Time.String() print it
TimeString(t) == "T" \o ToString(t)

\* generateID: the first 16 hex digits of the SHA-256 of time.Now().String()
generateID(now) == "id:" \o TimeString(now)

\* the hex digits of a SHA-256 digest, and where generateID cuts them
Sha256HexLen == 64
IDCut == 16

\* len(hex.EncodeToString(hash[:])[:16])
generateIDLen == IF IDCut <= Sha256HexLen THEN IDCut ELSE Sha256HexLen

\* json.Marshal(&Tree{Entries: entries}); an entry is [name, type, object]
RECURSIVE MarshalEntries(_)
MarshalEntries(entries) ==
    IF Len(entries) = 0 THEN <<>>
    ELSE <<"{", "name", Head(entries).name, "type", Head(entries).type,
           "object", Head(entries).object, "}">> \o MarshalEntries(Tail(entries))

MarshalTree(entries) == <<"{", "entries", "[">> \o MarshalEntries(entries) \o <<"]", "}">>

\* json.Marshal(&Commit{...}); Parent is omitempty
MarshalCommit(c) ==
    <<"{", "id", c.id, "author", c.author, "timestamp", c.timestamp,
      "message", c.message, "branch", c.branch>>
    \o (IF c.parent = "" THEN <<>> ELSE <<"parent", c.parent>>)
    \o <<"tree", c.tree, "}">>

\* the value that follows key in the object's members, "" when the key is absent
RECURSIVE JSONField(_, _, _)
JSONField(data, key, i) ==
    IF i + 1 >= Len(data) THEN ""
    ELSE IF data[i] = key THEN data[i + 1]
    ELSE JSONField(data, key, i + 2)

\* a string that time.Time's UnmarshalJSON accepts
IsTimeString(str) == \E t \in 0..MaxClock : TimeString(t) = str

\* json.Unmarshal(data, &commit): fails unless data is one flat JSON object whose
\* timestamp, when it has one, is a time
UnmarshalCommit(data) ==
    IF Len(data) >= 2 /\ data[1] = "{" /\ data[Len(data)] = "}" /\ Len(data) % 2 = 0
       /\ (\A i \in 2..(Len(data) - 1) : data[i] \notin {"{", "}", "[", "]"})
       /\ (JSONField(data, "timestamp", 2) = ""
           \/ IsTimeString(JSONField(data, "timestamp", 2)))
    THEN [ok |-> TRUE,
          id |-> JSONField(data, "id", 2), author |-> JSONField(data, "author", 2),
          timestamp |-> JSONField(data, "timestamp", 2),
          message |-> JSONField(data, "message", 2),
          branch |-> JSONField(data, "branch", 2),
          parent |-> JSONField(data, "parent", 2), tree |-> JSONField(data, "tree", 2)]
    ELSE [ok |-> FALSE, id |-> "", author |-> "", timestamp |-> "", message |-> "",
          branch |-> "", parent |-> "", tree |-> ""]

\* json.MarshalIndent(r.Config); Types is omitempty
MarshalConfig(layout, types) ==
    <<"{", "core", "{", "layout", layout, "autocrlf", "true", "}">>
    \o (IF Len(types) = 0 THEN <<>> ELSE <<"types", "[">> \o types \o <<"]">>)
    \o <<"}">>

\* json.Unmarshal(data, r.Config)
UnmarshalConfig(data) ==
    IF Len(data) >= 9 /\ data[1] = "{" /\ data[2] = "core" /\ data[3] = "{"
       /\ data[4] = "layout" /\ data[6] = "autocrlf" /\ data[8] = "}"
       /\ data[Len(data)] = "}"
       /\ (Len(data) = 9
           \/ (Len(data) >= 12 /\ data[9] = "types" /\ data[10] = "["
               /\ data[Len(data) - 1] = "]"))
    THEN [ok |-> TRUE, layout |-> data[5],
          types |-> IF Len(data) = 9 THEN <<>> ELSE SubSeq(data, 11, Len(data) - 2)]
    ELSE [ok |-> FALSE, layout |-> "", types |-> <<>>]

-----------------------------------------------------------------------------
(* Repository metadata: config.json, HEAD and the branch refs *)

\* the bytes of a token of the HEAD file
TokenBytes(tok) ==
    CASE tok = "ref: " -> 5
      [] tok = "refs/" -> 5
      [] tok = "heads/" -> 6
      [] tok = "main" -> 4
      [] tok = "dev" -> 3
      [] OTHER -> 64

RECURSIVE ByteLen(_)
ByteLen(s) == IF Len(s) = 0 THEN 0 ELSE TokenBytes(Head(s)) + ByteLen(Tail(s))

\* a HEAD that names the branch master whatever branch it is given
HeadRef_Master(branch) == <<"ref: ", "refs/", "heads/", "master">>

\* the content Init writes to HEAD: "ref: refs/heads/main"
HeadRef(branch) == <<"ref: ", "refs/", "heads/", branch>>

\* string(data) of a ref file
RefString(content) == IF Len(content) = 0 THEN "" ELSE content[1]

\* IsRepository: os.Stat(config.json) succeeds
IsRepository(cfg) == cfg # ABSENT

\* LoadConfig as OpenRepository calls it
LoadConfig(cfg) ==
    IF cfg = ABSENT THEN [ok |-> FALSE, layout |-> "", types |-> <<>>]
    ELSE UnmarshalConfig(cfg)

\* GetCurrentBranch that falls back to the default branch when HEAD names none
GetCurrentBranch_DefaultsToMain(hd) ==
    IF hd = ABSENT THEN [err |-> "failed to read HEAD", branch |-> ""]
    ELSE IF ByteLen(hd) > 5 /\ hd[1] = "ref: "
    THEN IF ByteLen(hd) < 16
         THEN [err |-> "panic: slice bounds out of range", branch |-> ""]
         ELSE [err |-> "ok", branch |-> RefString(SubSeq(hd, 4, Len(hd)))]
    ELSE [err |-> "ok", branch |-> "main"]

\* GetCurrentBranch: the branch HEAD names, or the error
GetCurrentBranch(hd) ==
    IF hd = ABSENT THEN [err |-> "failed to read HEAD", branch |-> ""]
    ELSE IF ByteLen(hd) > 5 /\ hd[1] = "ref: "
    THEN IF ByteLen(hd) < 16
         THEN [err |-> "panic: slice bounds out of range", branch |-> ""]
         ELSE [err |-> "ok", branch |-> RefString(SubSeq(hd, 4, Len(hd)))]
    ELSE [err |-> "HEAD is not pointing to a branch", branch |-> ""]

\* GetCurrentCommit: the content of the current branch's ref file, or the error
GetCurrentCommit(hd, rf) ==
    LET b == GetCurrentBranch(hd)
    IN  IF b.err # "ok" THEN [err |-> b.err, hash |-> ""]
        ELSE IF b.branch \notin DOMAIN rf
        THEN [err |-> "failed to read branch ref", hash |-> ""]
        ELSE [err |-> "ok", hash |-> RefString(rf[b.branch])]


-----------------------------------------------------------------------------
(* The commands *)

Outcome(obs, rf, hd, cfg, err, at, hash) ==
    [objects |-> obs, refs |-> rf, head |-> hd, config |-> cfg,
     err |-> err, failedAt |-> at, hash |-> hash]

\* os.WriteFile(refPath, []byte(commitHash)) that fails in the given mode
WriteRefFault(rf, branch, hashStr, mode) ==
    IF Cut(<<hashStr>>, mode) < 0 THEN rf
    ELSE Put(rf, branch, SubSeq(<<hashStr>>, 1, Cut(<<hashStr>>, mode)))

\* createInitialCommit: the empty tree, the first commit, refs/heads/main
createInitialCommit(obs, rf, hd, cfg, t1, t2, fault) ==
    LET tw == writeObject(obs, tree, MarshalTree(<<>>),
                          FaultFor(fault, "tree.mkdir", "tree.write"))
        c == [id |-> generateID(t1), author |-> "RDB <rdb@localhost>",
              timestamp |-> TimeString(t2), message |-> "Initial commit",
              branch |-> "main", parent |-> "", tree |-> tw.hash]
        cw == writeObject(tw.store, commit, MarshalCommit(c),
                          FaultFor(fault, "commit.mkdir", "commit.write"))
    IN  IF tw.err # "ok"
        THEN Outcome(tw.store, rf, hd, cfg, "failed to write tree object", "tree", "")
        ELSE IF cw.err # "ok"
        THEN Outcome(cw.store, rf, hd, cfg, "failed to write commit object", "commit", "")
        ELSE IF fault.step = "ref"
        THEN Outcome(cw.store, WriteRefFault(rf, "main", cw.hash, fault.mode), hd, cfg,
                     "failed to write HEAD", "ref", "")
        ELSE Outcome(cw.store, Put(rf, "main", <<cw.hash>>), hd, cfg, "ok", "", cw.hash)

\* Repository.Init: directories, config.json, HEAD, asset directories, first commit
RepositoryInit(obs, rf, hd, cfg, layout, types, t1, t2, fault) ==
    LET cfgDoc == MarshalConfig(layout, types)
    IN  IF fault.step = "mkdir"
        THEN Outcome(obs, rf, hd, cfg, "failed to create directory", "mkdir", "")
        ELSE IF fault.step = "config"
        THEN Outcome(obs, rf, hd, WriteFileFault(cfg, cfgDoc, fault.mode),
                     "failed to save config", "config", "")
        ELSE IF fault.step = "head"
        THEN Outcome(obs, rf, WriteFileFault(hd, HeadRef("main"), fault.mode), cfgDoc,
                     "failed to create HEAD", "head", "")
        ELSE IF fault.step = "assets"
        THEN Outcome(obs, rf, HeadRef("main"), cfgDoc,
                     "failed to create assets directory", "assets", "")
        ELSE createInitialCommit(obs, rf, HeadRef("main"), cfgDoc, t1, t2, fault)

\* runInit: the init command
runInit(obs, rf, hd, cfg, layout, types, t1, t2, fault) ==
    IF IsRepository(cfg)
    THEN Outcome(obs, rf, hd, cfg, "RDB repository already exists", "check", "")
    ELSE IF layout # "tree" /\ layout # "flat"
    THEN Outcome(obs, rf, hd, cfg, "invalid layout", "layout", "")
    ELSE RepositoryInit(obs, rf, hd, cfg, layout, types, t1, t2, fault)

\* runCommit with the branch ref updated before the commit object is written
runCommit_RefFirst(obs, rf, hd, cfg, message, commitAuthor, amend, t1, t2, fault) ==
    LET b == GetCurrentBranch(hd)
        cur == GetCurrentCommit(hd, rf)
        parentCommit == IF amend THEN cur.hash ELSE ""
        author == IF commitAuthor = "" THEN "RDB <rdb@localhost>" ELSE commitAuthor
        tw == writeObject(obs, tree, MarshalTree(<<>>),
                          FaultFor(fault, "tree.mkdir", "tree.write"))
        c == [id |-> generateID(t1), author |-> author, timestamp |-> TimeString(t2),
              message |-> message, branch |-> b.branch,
              parent |-> IF amend /\ parentCommit # "" THEN parentCommit ELSE "",
              tree |-> tw.hash]
        cw == writeObject(tw.store, commit, MarshalCommit(c),
                          FaultFor(fault, "commit.mkdir", "commit.write"))
    IN  IF ~IsRepository(cfg)
        THEN Outcome(obs, rf, hd, cfg, "not an RDB repository", "check", "")
        ELSE IF fault.step = "config.read" \/ ~LoadConfig(cfg).ok
        THEN Outcome(obs, rf, hd, cfg, "failed to open repository", "open", "")
        ELSE IF fault.step = "head" \/ b.err # "ok"
        THEN Outcome(obs, rf, hd, cfg, "failed to get current branch", "head", "")
        ELSE IF amend /\ (fault.step = "current" \/ cur.err # "ok")
        THEN Outcome(obs, rf, hd, cfg, "failed to get current commit", "current", "")
        ELSE IF tw.err # "ok"
        THEN Outcome(tw.store, rf, hd, cfg, "failed to write tree object", "tree", "")
        ELSE IF cw.err # "ok"
        THEN Outcome(cw.store, Put(rf, b.branch, <<Sha256Hex(MarshalCommit(c))>>), hd, cfg,
                     "failed to write commit object", "commit", "")
        ELSE Outcome(cw.store, Put(rf, b.branch, <<cw.hash>>), hd, cfg, "ok", "", cw.hash)

\* runCommit that always updates refs/heads/main, whatever branch HEAD names
runCommit_AlwaysMain(obs, rf, hd, cfg, message, commitAuthor, amend, t1, t2, fault) ==
    LET b == GetCurrentBranch(hd)
        cur == GetCurrentCommit(hd, rf)
        parentCommit == IF amend THEN cur.hash ELSE ""
        author == IF commitAuthor = "" THEN "RDB <rdb@localhost>" ELSE commitAuthor
        tw == writeObject(obs, tree, MarshalTree(<<>>),
                          FaultFor(fault, "tree.mkdir", "tree.write"))
        c == [id |-> generateID(t1), author |-> author, timestamp |-> TimeString(t2),
              message |-> message, branch |-> b.branch,
              parent |-> IF amend /\ parentCommit # "" THEN parentCommit ELSE "",
              tree |-> tw.hash]
        cw == writeObject(tw.store, commit, MarshalCommit(c),
                          FaultFor(fault, "commit.mkdir", "commit.write"))
    IN  IF ~IsRepository(cfg)
        THEN Outcome(obs, rf, hd, cfg, "not an RDB repository", "check", "")
        ELSE IF fault.step = "config.read" \/ ~LoadConfig(cfg).ok
        THEN Outcome(obs, rf, hd, cfg, "failed to open repository", "open", "")
        ELSE IF fault.step = "head" \/ b.err # "ok"
        THEN Outcome(obs, rf, hd, cfg, "failed to get current branch", "head", "")
        ELSE IF amend /\ (fault.step = "current" \/ cur.err # "ok")
        THEN Outcome(obs, rf, hd, cfg, "failed to get current commit", "current", "")
        ELSE IF tw.err # "ok"
        THEN Outcome(tw.store, rf, hd, cfg, "failed to write tree object", "tree", "")
        ELSE IF cw.err # "ok"
        THEN Outcome(cw.store, rf, hd, cfg, "failed to write commit object", "commit", "")
        ELSE IF b.branch = ""
        THEN Outcome(cw.store, rf, hd, cfg, "failed to update branch reference", "ref", "")
        ELSE IF fault.step = "ref"
        THEN Outcome(cw.store, WriteRefFault(rf, b.branch, cw.hash, fault.mode), hd, cfg,
                     "failed to update branch reference", "ref", "")
        ELSE Outcome(cw.store, Put(rf, "main", <<cw.hash>>), hd, cfg, "ok", "", cw.hash)

\* runCommit: the commit command
runCommit(obs, rf, hd, cfg, message, commitAuthor, amend, t1, t2, fault) ==
    LET b == GetCurrentBranch(hd)
        cur == GetCurrentCommit(hd, rf)
        parentCommit == IF amend THEN cur.hash ELSE ""
        author == IF commitAuthor = "" THEN "RDB <rdb@localhost>" ELSE commitAuthor
        tw == writeObject(obs, tree, MarshalTree(<<>>),
                          FaultFor(fault, "tree.mkdir", "tree.write"))
        c == [id |-> generateID(t1), author |-> author, timestamp |-> TimeString(t2),
              message |-> message, branch |-> b.branch,
              parent |-> IF amend /\ parentCommit # "" THEN parentCommit ELSE "",
              tree |-> tw.hash]
        cw == writeObject(tw.store, commit, MarshalCommit(c),
                          FaultFor(fault, "commit.mkdir", "commit.write"))
    IN  IF ~IsRepository(cfg)
        THEN Outcome(obs, rf, hd, cfg, "not an RDB repository", "check", "")
        ELSE IF fault.step = "config.read" \/ ~LoadConfig(cfg).ok
        THEN Outcome(obs, rf, hd, cfg, "failed to open repository", "open", "")
        ELSE IF fault.step = "head" \/ b.err # "ok"
        THEN Outcome(obs, rf, hd, cfg, "failed to get current branch", "head", "")
        ELSE IF amend /\ (fault.step = "current" \/ cur.err # "ok")
        THEN Outcome(obs, rf, hd, cfg, "failed to get current commit", "current", "")
        ELSE IF tw.err # "ok"
        THEN Outcome(tw.store, rf, hd, cfg, "failed to write tree object", "tree", "")
        ELSE IF cw.err # "ok"
        THEN Outcome(cw.store, rf, hd, cfg, "failed to write commit object", "commit", "")
        ELSE IF b.branch = ""
        THEN Outcome(cw.store, rf, hd, cfg, "failed to update branch reference", "ref", "")
        ELSE IF fault.step = "ref"
        THEN Outcome(cw.store, WriteRefFault(rf, b.branch, cw.hash, fault.mode), hd, cfg,
                     "failed to update branch reference", "ref", "")
        ELSE Outcome(cw.store, Put(rf, b.branch, <<cw.hash>>), hd, cfg, "ok", "", cw.hash)

NoTime == [zero |-> TRUE, t |-> 0]

\* the reading of the clock a timestamp was printed from; the zero time.Time of
\* a commit without a timestamp is before every reading
ParseTime(str) ==
    IF IsTimeString(str) THEN CHOOSE t \in 0..MaxClock : TimeString(t) = str ELSE 0 - 1

\* showCommitHistory: the entries the log command prints, newest first
showCommitHistory(obs, startCommit, maxCount, since, until) ==
    LET o == readObject(obs, startCommit)
        c == UnmarshalCommit(o.data)
    IN  IF o.err # "ok" THEN [err |-> "failed to read commit object", entries |-> <<>>]
        ELSE IF o.objType # commit THEN [err |-> "object is not a commit", entries |-> <<>>]
        ELSE IF ~c.ok THEN [err |-> "failed to unmarshal commit", entries |-> <<>>]
        ELSE IF ~since.zero /\ ParseTime(c.timestamp) < since.t
        THEN [err |-> "ok", entries |-> <<>>]
        ELSE IF ~until.zero /\ ParseTime(c.timestamp) > until.t
        THEN [err |-> "ok", entries |-> <<>>]
        ELSE [err |-> "ok", entries |-> <<c>>]

\* runLog: the log command
runLog(obs, rf, hd, cfg, maxCount, since, until) ==
    LET cur == GetCurrentCommit(hd, rf)
    IN  IF ~IsRepository(cfg) THEN [err |-> "not an RDB repository", entries |-> <<>>]
        ELSE IF ~LoadConfig(cfg).ok
        THEN [err |-> "failed to open repository", entries |-> <<>>]
        ELSE IF cur.err # "ok"
        THEN [err |-> "failed to get current commit", entries |-> <<>>]
        ELSE showCommitHistory(obs, cur.hash, maxCount, since, until)

-----------------------------------------------------------------------------
(* The sequential specification: one command or API call at a time *)

Layouts == {"tree", "bogus"}
TypeLists == {<<"text", "audio">>}
\* the --message and --author flags of the commit commands the model runs
CommitArgs == {[message |-> "m1", author |-> ""], [message |-> "m2", author |-> "ann"]}

RECURSIVE SeqsUpTo(_, _)
SeqsUpTo(S, n) ==
    IF n = 0 THEN {<<>>}
    ELSE SeqsUpTo(S, n - 1) \cup
         {Append(q, b) : q \in {r \in SeqsUpTo(S, n - 1) : Len(r) = n - 1}, b \in S}

\* the serialized values the API calls of the model store: json.Marshal returns
\* at least one byte, and the empty tree is what init and commit store
Payloads == (SeqsUpTo(PayloadBytes, MaxPayloadLen) \ {<<>>}) \cup {MarshalTree(<<>>)}

WriteFaults(steps) == {[step |-> s, mode |-> m] : s \in steps, m \in CutModes}
CallFaults(steps) == {[step |-> s, mode |-> "open"] : s \in steps}

InitFaults ==
    CallFaults({"mkdir", "assets", "tree.mkdir", "commit.mkdir"})
    \cup WriteFaults({"config", "head", "tree.write", "commit.write", "ref"})

CommitFaults ==
    CallFaults({"config.read", "head", "current", "tree.mkdir", "commit.mkdir"})
    \cup WriteFaults({"tree.write", "commit.write", "ref"})

StoreFaults == CallFaults({"mkdir"}) \cup WriteFaults({"write"})

\* the step of a command at which a fault shows
FaultSite(step) ==
    CASE step \in {"tree.mkdir", "tree.write"} -> "tree"
      [] step \in {"commit.mkdir", "commit.write"} -> "commit"
      [] step = "config.read" -> "open"
      [] OTHER -> step

NoLast ==
    [op |-> "none", err |-> "", failedAt |-> "", amend |-> FALSE, hash |-> "",
     prev |-> "", kind |-> <<>>, data |-> <<>>, entries |-> <<>>,
     maxCount |-> 0, since |-> NoTime, until |-> NoTime,
     path |-> <<>>, report |-> <<>>, clean |-> FALSE, again |-> FALSE,
     args |-> <<>>, skipped |-> <<>>, flags |-> [type |-> "", id |-> 0, name |-> ""],
     id |-> 0, assetType |-> "", repoPath |-> "", layout |-> "", types |-> <<>>,
     isRepository |-> FALSE, genID |-> "", genIDLen |-> 0]

NoProcs == <<>>

Init ==
    /\ objects = <<>>
    /\ refs = <<>>
    /\ head = ABSENT
    /\ config = ABSENT
    /\ clock = 0
    /\ last = NoLast
    /\ hist = <<>>
    /\ nops = 0
    /\ nfaults = 0
    /\ procs = NoProcs
    /\ worktree = <<>>
    /\ staged = <<>>

Injected(fault, out) ==
    fault.step # "none" =>
        /\ nfaults < MaxFaults
        /\ out.err # "ok"
        /\ out.failedAt = FaultSite(fault.step)

RunInit ==
    /\ nops < MaxOps
    /\ \E layout \in Layouts, types \in TypeLists, t1 \in clock..MaxClock,
          fault \in {NoFault} \cup InitFaults :
        \E t2 \in t1..MaxClock :
            LET out == runInit(objects, refs, head, config, layout, types, t1, t2, fault)
            IN  /\ Injected(fault, out)
                /\ objects' = out.objects
                /\ refs' = out.refs
                /\ head' = out.head
                /\ config' = out.config
                /\ clock' = t2
                /\ last' = [NoLast EXCEPT !.op = "init", !.err = out.err,
                                          !.failedAt = out.failedAt, !.hash = out.hash]
                /\ nfaults' = IF fault.step = "none" THEN nfaults ELSE nfaults + 1
    /\ nops' = nops + 1
    /\ UNCHANGED <<hist, procs, worktree, staged>>

RunCommit ==
    /\ nops < MaxOps
    /\ \E args \in CommitArgs, amend \in BOOLEAN,
          t1 \in clock..MaxClock, fault \in {NoFault} \cup CommitFaults :
        \E t2 \in t1..MaxClock :
            LET out == runCommit(objects, refs, head, config, args.message, args.author,
                                 amend, t1, t2, fault)
            IN  /\ Injected(fault, out)
                /\ objects' = out.objects
                /\ refs' = out.refs
                /\ head' = out.head
                /\ config' = out.config
                /\ clock' = t2
                /\ last' = [NoLast EXCEPT !.op = "commit", !.err = out.err,
                                          !.failedAt = out.failedAt, !.hash = out.hash,
                                          !.amend = amend,
                                          !.prev = GetCurrentCommit(head, refs).hash]
                /\ hist' = IF out.err = "ok"
                           THEN Append(hist, [hash |-> out.hash, amend |-> amend])
                           ELSE hist
                /\ staged' = IF out.err = "ok"
                             THEN [q \in DOMAIN staged |->
                                      [staged[q] EXCEPT !.committed = TRUE]]
                             ELSE staged
                /\ nfaults' = IF fault.step = "none" THEN nfaults ELSE nfaults + 1
    /\ nops' = nops + 1
    /\ UNCHANGED <<procs, worktree>>

\* Repository.WriteObject called on an opened repository
WriteObject ==
    /\ nops < MaxOps
    /\ LoadConfig(config).ok
    /\ \E objType \in Kinds, data \in Payloads, fault \in {NoFault} \cup StoreFaults :
        LET out == writeObject(objects, objType, data, fault)
        IN  /\ fault.step # "none" => nfaults < MaxFaults
            /\ objects' = out.store
            /\ last' = [NoLast EXCEPT !.op = "write", !.err = out.err, !.hash = out.hash,
                                      !.kind = objType, !.data = data]
            /\ nfaults' = IF fault.step = "none" THEN nfaults ELSE nfaults + 1
    /\ nops' = nops + 1
    /\ UNCHANGED <<refs, head, config, clock, hist, procs, worktree, staged>>

RunLog ==
    /\ last.op # "log"
    /\ \E maxCount \in {0, 1}, since \in {NoTime, [zero |-> FALSE, t |-> 1]},
          until \in {NoTime} :
        LET out == runLog(objects, refs, head, config, maxCount, since, until)
        IN  last' = [NoLast EXCEPT !.op = "log", !.err = out.err, !.entries = out.entries,
                                   !.prev = GetCurrentCommit(head, refs).hash,
                                   !.maxCount = maxCount, !.since = since,
                                   !.until = until]
    /\ UNCHANGED <<objects, refs, head, config, clock, hist, nops, nfaults, procs, worktree, staged>>

Next == RunInit \/ RunCommit \/ WriteObject \/ RunLog

Spec == Init /\ [][Next]_vars

-----------------------------------------------------------------------------
(* Reading the commit graph *)

\* the commit stored under hash h, as the log command decodes it
CommitAt(obs, h) == UnmarshalCommit(readObject(obs, h).data)

IsCommit(obs, h) ==
    /\ readObject(obs, h).err = "ok"
    /\ readObject(obs, h).objType = commit
    /\ CommitAt(obs, h).ok

\* target is from, or an ancestor of from by parent links
RECURSIVE Reaches(_, _, _, _)
Reaches(obs, from, target, fuel) ==
    \/ from = target
    \/ /\ fuel > 0
       /\ IsCommit(obs, from)
       /\ CommitAt(obs, from).parent # ""
       /\ Reaches(obs, CommitAt(obs, from).parent, target, fuel - 1)

EmptyTreeHash == Sha256Hex(MarshalTree(<<>>))

-----------------------------------------------------------------------------
(* Claims about the object store *)

\* C1 (round trip): after WriteObject(K, P) returned a hash, ReadObject of that
\* hash returns exactly K and the serialized P.
C1_ReadsBack ==
    (last.op = "write" /\ last.err = "ok") =>
        /\ readObject(objects, last.hash).err = "ok"
        /\ readObject(objects, last.hash).objType = last.kind
        /\ readObject(objects, last.hash).data = last.data

\* C1 (same hash): a WriteObject(K, P) that directly follows a WriteObject(K, P)
\* returns the hash the first one returned.
C1_SameHashAgain ==
    (/\ last.op = "write" /\ last.err = "ok"
     /\ last'.op = "write" /\ last'.err = "ok"
     /\ last'.kind = last.kind /\ last'.data = last.data) => last'.hash = last.hash

\* C1: content addressing round trip.  ReadObject(WriteObject(K, P)) is (K, P)
\* for every kind and payload, and writing (K, P) twice returns the same hash.
C1_ContentAddressing == [](C1_ReadsBack) /\ [][C1_SameHashAgain]_vars

\* C1's case: a tree was written through the API under the hash that init's
\* empty tree already has, and the call succeeded
C1_Witness ==
    /\ last.op = "write" /\ last.err = "ok"
    /\ last.kind = tree /\ last.data = MarshalTree(<<>>)
    /\ "main" \in DOMAIN refs
    /\ IsCommit(objects, RefString(refs["main"]))
    /\ CommitAt(objects, RefString(refs["main"])).tree = last.hash

\* C2: stored objects are immutable.  An object that reads back as (K, P) under
\* hash h still reads back as (K, P) after any later successful operation
\* (stated for runs without I/O faults).
C2_ObjectsImmutable ==
    [][(last'.err = "ok" /\ nfaults' = 0) =>
         \A h \in DOMAIN objects :
            readObject(objects, h).err = "ok" =>
                /\ h \in DOMAIN objects'
                /\ readObject(objects', h) = readObject(objects, h)]_vars

\* C3: the hash covers the kind.  A WriteObject(K2, P2) returns the hash under
\* which an object (K1, P1) is stored only if K1 = K2 and P1 = P2 (stated for
\* runs without I/O faults).
C3_HashCoversKind ==
    [][(/\ last'.op = "write" /\ last'.err = "ok" /\ nfaults' = 0
        /\ last'.hash \in DOMAIN objects
        /\ readObject(objects, last'.hash).err = "ok") =>
            /\ readObject(objects, last'.hash).objType = last'.kind
            /\ readObject(objects, last'.hash).data = last'.data]_vars

-----------------------------------------------------------------------------
(* Claims about commit and log *)

\* C6: parent linkage.  A successful commit without amend on a branch whose ref
\* held commit h creates a commit whose parent field is h.
C6_ParentIsPreviousHead ==
    (/\ last.op = "commit" /\ last.err = "ok" /\ ~last.amend /\ nfaults = 0
     /\ IsCommit(objects, last.prev)) =>
        /\ IsCommit(objects, last.hash)
        /\ CommitAt(objects, last.hash).parent = last.prev

\* C7: log after init and two different commits (no amend), with no limit and no
\* date filter, returns the two commits newest first, and the newer entry's
\* parent identifies the older entry.
C7_LogWalksChain ==
    (/\ last.op = "log" /\ last.err = "ok" /\ nfaults = 0
     /\ last.maxCount = 0 /\ last.since = NoTime /\ last.until = NoTime
     /\ Len(hist) = 2 /\ ~hist[1].amend /\ ~hist[2].amend
     /\ hist[1].hash # hist[2].hash
     /\ last.prev = hist[2].hash) =>
        /\ Len(last.entries) = 2
        /\ last.entries[1] = CommitAt(objects, hist[2].hash)
        /\ last.entries[2] = CommitAt(objects, hist[1].hash)
        /\ last.entries[1].parent \in {hist[1].hash, last.entries[2].id}

\* C8: no-op guard.  A commit without amend that meets no I/O fault and builds
\* the tree the head commit already has fails with "no-op commit" and leaves
\* the branch ref and the store as they were.
C8_NoOpGuard ==
    [][(/\ last'.op = "commit" /\ ~last'.amend /\ nops' = nops + 1
        /\ nfaults' = 0
        /\ IsCommit(objects, last'.prev)
        /\ CommitAt(objects, last'.prev).tree = EmptyTreeHash) =>
            /\ last'.err = "no-op commit"
            /\ refs' = refs
            /\ objects' = objects]_vars

\* C9: amend replaces the head.  After a successful commit with amend on a
\* branch whose head was commit c, the new head's parent is c's parent and c is
\* not reachable from the branch ref by parent links.
C9_AmendReplacesHead ==
    (/\ last.op = "commit" /\ last.err = "ok" /\ last.amend /\ nfaults = 0
     /\ IsCommit(objects, last.prev)) =>
        /\ CommitAt(objects, last.hash).parent = CommitAt(objects, last.prev).parent
        /\ ~Reaches(objects, RefString(refs["main"]), last.prev,
                    Cardinality(DOMAIN objects))

\* the steps of runCommit that come before the ref update
BeforeRefUpdate == {"check", "open", "head", "current", "tree", "commit"}

-----------------------------------------------------------------------------
(* The object store on a disk that corrupts data *)

\* One byte of the payload stored under some hash changes on disk, the length
\* of the file unchanged.
CorruptPayload ==
    /\ nfaults < MaxFaults
    /\ \E h \in DOMAIN objects, b \in PayloadBytes :
        \E i \in 1..Len(objects[h]) :
            /\ IndexFrom(objects[h], NUL, 1) > 0
            /\ i > IndexFrom(objects[h], NUL, 1)
            /\ objects[h][i] # b
            /\ objects' = [objects EXCEPT ![h][i] = b]
            /\ last' = [NoLast EXCEPT !.op = "corrupt", !.hash = h]
    /\ nfaults' = nfaults + 1
    /\ UNCHANGED <<refs, head, config, clock, hist, nops, procs, worktree, staged>>

\* init and the store's API on a disk that may corrupt a stored payload
NextCorrupt == RunInit \/ WriteObject \/ CorruptPayload

SpecCorrupt == Init /\ [][NextCorrupt]_vars

\* C4: corruption detection.  After a payload byte stored under hash h changed,
\* ReadObject(h) fails; it does not return the altered bytes.
C4_CorruptionDetected ==
    (last.op = "corrupt") => readObject(objects, last.hash).err # "ok"

-----------------------------------------------------------------------------
(* The concurrent specification: one process stores an object step by step  *)
(* while another reads one                                                  *)

MaxWrites == 1

IdleWriter == [pc |-> "idle", objType |-> <<>>, data |-> <<>>, written |-> 0]
IdleReader == [pc |-> "idle", hash |-> "", res |-> ReadError("")]

InitConc ==
    LET out == runInit(<<>>, <<>>, ABSENT, ABSENT, "tree", <<"text", "audio">>, 0, 0,
                       NoFault)
    IN  /\ objects = out.objects
        /\ refs = out.refs
        /\ head = out.head
        /\ config = out.config
        /\ clock = 0
        /\ last = NoLast
        /\ hist = <<>>
        /\ nops = 0
        /\ nfaults = 0
        /\ procs = [w |-> IdleWriter, r |-> IdleReader]
        /\ worktree = <<>>
        /\ staged = <<>>

\* writeObject up to os.WriteFile: the object is marshalled and hashed and its
\* directory exists
WriteObjectStart ==
    /\ procs.w.pc = "idle"
    /\ nops < MaxWrites
    /\ \E objType \in Kinds, data \in Payloads :
        procs' = [procs EXCEPT !.w = [pc |-> "open", objType |-> objType,
                                      data |-> data, written |-> 0]]
    /\ nops' = nops + 1
    /\ UNCHANGED <<objects, refs, head, config, clock, last, hist, nfaults, worktree, staged>>

\* os.WriteFile opens the file with O_WRONLY|O_CREATE|O_TRUNC
WriteFileOpen ==
    /\ procs.w.pc = "open"
    /\ objects' = Put(objects, Sha256Hex(procs.w.data), <<>>)
    /\ procs' = [procs EXCEPT !.w.pc = "write"]
    /\ UNCHANGED <<refs, head, config, clock, last, hist, nops, nfaults, worktree, staged>>

\* os.WriteFile writes: one more token, or all that is left, reaches the file
WriteFileWrite ==
    /\ procs.w.pc = "write"
    /\ LET content == ObjectContent(procs.w.objType, procs.w.data)
       IN  /\ procs.w.written < Len(content)
           /\ \E k \in {1, Len(content) - procs.w.written} :
                /\ objects' = Put(objects, Sha256Hex(procs.w.data),
                                  SubSeq(content, 1, procs.w.written + k))
                /\ procs' = [procs EXCEPT !.w.written = procs.w.written + k]
    /\ UNCHANGED <<refs, head, config, clock, last, hist, nops, nfaults, worktree, staged>>

\* os.WriteFile closes the file and writeObject returns the hash
WriteObjectReturn ==
    /\ procs.w.pc = "write"
    /\ procs.w.written = Len(ObjectContent(procs.w.objType, procs.w.data))
    /\ procs' = [procs EXCEPT !.w = IdleWriter]
    /\ UNCHANGED <<objects, refs, head, config, clock, last, hist, nops, nfaults, worktree, staged>>

\* readObject: os.Open
ReadObjectOpen ==
    /\ procs.r.pc \in {"idle", "done"}
    /\ \E p \in Payloads :
        IF Sha256Hex(p) \in DOMAIN objects
        THEN procs' = [procs EXCEPT !.r = [pc |-> "opened", hash |-> Sha256Hex(p),
                                           res |-> ReadError("")]]
        ELSE procs' = [procs EXCEPT !.r = [pc |-> "done", hash |-> Sha256Hex(p),
                                           res |-> readObject(objects, Sha256Hex(p))]]
    /\ UNCHANGED <<objects, refs, head, config, clock, last, hist, nops, nfaults, worktree, staged>>

\* readObject: io.ReadAll, then the header and size checks
ReadObjectReadAll ==
    /\ procs.r.pc = "opened"
    /\ procs' = [procs EXCEPT !.r.pc = "done",
                              !.r.res = readObject(objects, procs.r.hash)]
    /\ UNCHANGED <<objects, refs, head, config, clock, last, hist, nops, nfaults, worktree, staged>>

NextConc ==
    \/ WriteObjectStart
    \/ WriteFileOpen
    \/ WriteFileWrite
    \/ WriteObjectReturn
    \/ ReadObjectOpen
    \/ ReadObjectReadAll

SpecConc == InitConc /\ [][NextConc]_vars

\* C5: object writes are atomic.  A ReadObject that runs while another process
\* writes the object reports that it is absent or returns the complete object.
C5_ReaderSeesWholeObject ==
    (procs.r.pc = "done") => procs.r.res.err \in {"failed to open object", "ok"}

-----------------------------------------------------------------------------
(* Concurrent commits: two commit commands and a reader of the branch ref,  *)
(* each taking the steps of runCommit one file operation at a time          *)

Committers == {"c1", "c2"}

\* the --message flag of each of the two commit commands
MessageOf(p) == IF p = "c1" THEN "m1" ELSE "m2"

IdleCommitter ==
    [pc |-> "idle", amend |-> FALSE, branch |-> "", parent |-> "", hash |-> "", t |-> 0]
IdleRefReader == [pc |-> "idle", res |-> [err |-> "", hash |-> ""]]

InitCommits ==
    LET out == runInit(<<>>, <<>>, ABSENT, ABSENT, "tree", <<"text", "audio">>, 0, 0,
                       NoFault)
    IN  /\ objects = out.objects
        /\ refs = out.refs
        /\ head = out.head
        /\ config = out.config
        /\ clock = 0
        /\ last = NoLast
        /\ hist = <<>>
        /\ nops = 0
        /\ nfaults = 0
        /\ procs = [c1 |-> IdleCommitter, c2 |-> IdleCommitter, rd |-> IdleRefReader]
        /\ worktree = <<>>
        /\ staged = <<>>

\* runCommit up to GetCurrentBranch: the repository is opened and HEAD is read
CommitGetBranch(p) ==
    /\ procs[p].pc = "idle"
    /\ IsRepository(config) /\ LoadConfig(config).ok
    /\ GetCurrentBranch(head).err = "ok"
    /\ \E amend \in BOOLEAN :
        procs' = [procs EXCEPT ![p] = [IdleCommitter EXCEPT
                      !.pc = "branch", !.amend = amend,
                      !.branch = GetCurrentBranch(head).branch]]
    /\ nops' = nops + 1
    /\ UNCHANGED <<objects, refs, head, config, clock, last, hist, nfaults, worktree, staged>>

\* runCommit: GetCurrentCommit when amending, then the Commit struct is built
CommitGetCurrent(p) ==
    /\ procs[p].pc = "branch"
    /\ procs[p].amend => GetCurrentCommit(head, refs).err = "ok"
    /\ \E t \in clock..MaxClock :
        /\ procs' = [procs EXCEPT
                        ![p].pc = "current",
                        ![p].parent = IF procs[p].amend
                                      THEN GetCurrentCommit(head, refs).hash ELSE "",
                        ![p].t = t]
        /\ clock' = t
    /\ UNCHANGED <<objects, refs, head, config, last, hist, nops, nfaults, worktree, staged>>

\* the commit object a committer stores
CommitOf(p) ==
    [id |-> generateID(procs[p].t), author |-> "RDB <rdb@localhost>",
     timestamp |-> TimeString(procs[p].t), message |-> MessageOf(p),
     branch |-> procs[p].branch,
     parent |-> IF procs[p].amend /\ procs[p].parent # "" THEN procs[p].parent ELSE "",
     tree |-> Sha256Hex(MarshalTree(<<>>))]

\* runCommit: the empty tree and the commit object are written
CommitWriteObjects(p) ==
    /\ procs[p].pc = "current"
    /\ LET tw == writeObject(objects, tree, MarshalTree(<<>>), NoFault)
           cw == writeObject(tw.store, commit, MarshalCommit(CommitOf(p)), NoFault)
       IN  /\ objects' = cw.store
           /\ procs' = [procs EXCEPT ![p].pc = "objects", ![p].hash = cw.hash]
    /\ UNCHANGED <<refs, head, config, clock, last, hist, nops, nfaults, worktree, staged>>

\* os.WriteFile(refPath, ...) opens the ref file with O_TRUNC
CommitRefOpen(p) ==
    /\ procs[p].pc = "objects"
    /\ refs' = Put(refs, procs[p].branch, <<>>)
    /\ procs' = [procs EXCEPT ![p].pc = "refopen"]
    /\ UNCHANGED <<objects, head, config, clock, last, hist, nops, nfaults, worktree, staged>>

\* os.WriteFile(refPath, ...) writes the commit hash and runCommit returns
CommitRefWrite(p) ==
    /\ procs[p].pc = "refopen"
    /\ refs' = Put(refs, procs[p].branch, <<procs[p].hash>>)
    /\ procs' = [procs EXCEPT ![p].pc = "done"]
    /\ hist' = Append(hist, [hash |-> procs[p].hash, amend |-> procs[p].amend])
    /\ UNCHANGED <<objects, head, config, clock, last, nops, nfaults, worktree, staged>>

\* another process reads the branch ref: GetCurrentCommit
ReadRef ==
    /\ procs.rd.pc \in {"idle", "done"}
    /\ procs' = [procs EXCEPT !.rd = [pc |-> "done",
                                      res |-> GetCurrentCommit(head, refs)]]
    /\ procs'.rd # procs.rd
    /\ UNCHANGED <<objects, refs, head, config, clock, last, hist, nops, nfaults, worktree, staged>>

NextCommits ==
    \/ \E p \in Committers :
        \/ CommitGetBranch(p)
        \/ CommitGetCurrent(p)
        \/ CommitWriteObjects(p)
        \/ CommitRefOpen(p)
        \/ CommitRefWrite(p)
    \/ ReadRef

SpecCommits == InitCommits /\ [][NextCommits]_vars

\* the steps of a commit from reading the ref to the end of writing it
InRefSection == {"current", "objects", "refopen"}

\* C11: ref updates are serialized per branch.  Two commits on one branch never
\* are both between reading the ref and having written it, and when both are
\* done the later commit's parent chain contains the earlier commit.
C11_RefUpdatesSerialized ==
    /\ ~(procs.c1.pc \in InRefSection /\ procs.c2.pc \in InRefSection)
    /\ (procs.c1.pc = "done" /\ procs.c2.pc = "done") =>
           Reaches(objects, hist[2].hash, hist[1].hash, MaxOps)

\* C12: branch ref updates are atomic.  Whoever reads the ref while a commit
\* updates it sees a complete commit hash, the old one or the new one.
C12_RefUpdateAtomic ==
    (procs.rd.pc = "done" /\ procs.rd.res.err = "ok") =>
        /\ procs.rd.res.hash # ""
        /\ IsCommit(objects, procs.rd.res.hash)

-----------------------------------------------------------------------------
(* A repository whose HEAD is detached *)

\* HEAD holds a raw commit hash instead of "ref: refs/heads/<branch>"
Detached(hd) == hd # ABSENT /\ Len(hd) = 1 /\ hd[1] \in DOMAIN objects

\* HEAD is set to the commit the current branch points to (a checkout of a
\* commit, which the commands modelled here do not offer)
DetachHead ==
    /\ GetCurrentCommit(head, refs).err = "ok"
    /\ IsCommit(objects, GetCurrentCommit(head, refs).hash)
    /\ head' = <<GetCurrentCommit(head, refs).hash>>
    /\ UNCHANGED <<objects, refs, config, clock, last, hist, nops, nfaults, procs, worktree, staged>>

NextDetached == RunInit \/ RunCommit \/ DetachHead

SpecDetached == Init /\ [][NextDetached]_vars

\* C13: commit requires a symbolic HEAD.  A commit command that runs while HEAD
\* holds a raw commit hash fails, writes no object and changes no branch ref.
C13_CommitNeedsSymbolicHead ==
    [][(last'.op = "commit" /\ nops' = nops + 1 /\ Detached(head)) =>
           (last'.err # "ok" /\ objects' = objects /\ refs' = refs)]_vars

\* C13's case: commit was refused on a detached HEAD
C13_Witness ==
    /\ last.op = "commit" /\ last.err = "failed to get current branch"
    /\ Detached(head)
    /\ "main" \in DOMAIN refs /\ RefString(refs["main"]) = head[1]

-----------------------------------------------------------------------------
(* The object store's API on an initialized repository (init was the first  *)
(* operation): objects and trees are written, stored headers get damaged,   *)
(* objects are read                                                         *)

\* two entries of a tree, as the callers of WriteObject("tree", ...) build them
EntryA == [name |-> "a", type |-> "blob", object |-> Sha256Hex(<<"x">>)]
EntryB == [name |-> "b", type |-> "blob", object |-> Sha256Hex(<<"y">>)]

\* the Entries slices of the trees the model stores
TreeEntryLists == {<<EntryA>>, <<EntryA, EntryB>>, <<EntryB, EntryA>>}

\* the hashes the model reads: of everything it may store
ReadHashes ==
    {Sha256Hex(p) : p \in Payloads} \cup {Sha256Hex(MarshalTree(es)) : es \in TreeEntryLists}

\* the bytes a damaged header byte may turn into
HeaderDamage == {SP, "x", "2"}

InitStore ==
    LET out == runInit(<<>>, <<>>, ABSENT, ABSENT, "tree", <<"text", "audio">>, 0, 0,
                       NoFault)
    IN  /\ objects = out.objects
        /\ refs = out.refs
        /\ head = out.head
        /\ config = out.config
        /\ clock = 0
        /\ last = NoLast
        /\ hist = <<>>
        /\ nops = 1
        /\ nfaults = 0
        /\ procs = NoProcs
        /\ worktree = <<>>
        /\ staged = <<>>

\* Repository.WriteObject("tree", &Tree{Entries: entries})
WriteTree ==
    /\ nops < MaxOps
    /\ LoadConfig(config).ok
    /\ \E entries \in TreeEntryLists :
        LET out == writeObject(objects, tree, MarshalTree(entries), NoFault)
        IN  /\ objects' = out.store
            /\ last' = [NoLast EXCEPT !.op = "writetree", !.err = out.err,
                                      !.hash = out.hash, !.kind = tree,
                                      !.data = MarshalTree(entries),
                                      !.entries = entries]
    /\ nops' = nops + 1
    /\ UNCHANGED <<refs, head, config, clock, hist, nfaults, procs, worktree, staged>>

\* One byte of the header stored under some hash changes on disk
CorruptHeader ==
    /\ nfaults < MaxFaults
    /\ \E h \in DOMAIN objects, b \in HeaderDamage :
        \E i \in 1..Len(objects[h]) :
            /\ IndexFrom(objects[h], NUL, 1) > 0
            /\ i < IndexFrom(objects[h], NUL, 1)
            /\ objects[h][i] # b
            /\ objects' = [objects EXCEPT ![h][i] = b]
            /\ last' = [NoLast EXCEPT !.op = "corrupt", !.hash = h]
    /\ nfaults' = nfaults + 1
    /\ UNCHANGED <<refs, head, config, clock, hist, nops, procs, worktree, staged>>

\* Repository.ReadObject(hash) called on an opened repository
ReadObject ==
    /\ LoadConfig(config).ok
    /\ \E h \in ReadHashes \cup DOMAIN objects :
        LET out == readObject(objects, h)
        IN  last' = [NoLast EXCEPT !.op = "read", !.hash = h, !.err = out.err,
                                   !.kind = out.objType, !.data = out.data]
    /\ UNCHANGED <<objects, refs, head, config, clock, hist, nops, nfaults, procs, worktree, staged>>

NextStore == WriteObject \/ WriteTree \/ CorruptHeader \/ ReadObject

SpecStore == InitStore /\ [][NextStore]_vars


\* the entries of a list, as a set
EntrySet(entries) == {entries[i] : i \in 1..Len(entries)}

\* C14: tree determinism.  Two trees stored one after the other from the same
\* set of entries, whatever the order the entries were given in, get the same
\* hash.
C14_TreeDeterminism ==
    [][(/\ last.op = "writetree" /\ last.err = "ok"
        /\ last'.op = "writetree" /\ last'.err = "ok"
        /\ EntrySet(last'.entries) = EntrySet(last.entries)) =>
           last'.hash = last.hash]_vars

\* the store after WriteObject(k1, p1) and then WriteObject(k2, p2)
WriteBoth(store, k1, p1, k2, p2) ==
    writeObject(writeObject(store, k1, p1, NoFault).store, k2, p2, NoFault).store

\* C15: object writes commute.  From every state of an opened repository, two
\* WriteObject calls leave the same store in either order, and every ReadObject
\* returns the same afterwards.
C15_WritesCommute ==
    LoadConfig(config).ok =>
        \A k1 \in Kinds, k2 \in Kinds, p1 \in Payloads, p2 \in Payloads :
            /\ WriteBoth(objects, k1, p1, k2, p2) = WriteBoth(objects, k2, p2, k1, p1)
            /\ \A h \in ReadHashes :
                readObject(WriteBoth(objects, k1, p1, k2, p2), h)
                    = readObject(WriteBoth(objects, k2, p2, k1, p1), h)

\* the error of a ReadObject whose file is not there
NotFound == "failed to open object"

\* C16: ReadObject of a hash nothing was ever stored under fails with the
\* not-found error and returns no kind and no payload; a ReadObject of a hash
\* that has a file never fails with that error, so the caller can tell a
\* missing object from a damaged one.
C16_NotFoundIsDistinct ==
    (last.op = "read") =>
        /\ last.hash \notin DOMAIN objects =>
              (last.err = NotFound /\ last.kind = <<>> /\ last.data = <<>>)
        /\ last.hash \in DOMAIN objects => last.err # NotFound

\* C16's case: a hash that was never written is read while the store holds a
\* damaged object
C16_Witness ==
    /\ last.op = "read" /\ last.hash \notin DOMAIN objects
    /\ last.err = NotFound
    /\ \E h \in DOMAIN objects : readObject(objects, h).err \notin {"ok", NotFound}

\* the file has no null byte
NoSeparator(file) == \A i \in 1..Len(file) : file[i] # NUL

\* the position of the first null byte of a file that has one
FirstNul(file) ==
    CHOOSE i \in 1..Len(file) : file[i] = NUL /\ \A j \in 1..(i - 1) : file[j] # NUL

\* the bytes before the first null byte
HeaderBytes(file) == SubSeq(file, 1, FirstNul(file) - 1)

\* where a header "<kind> <size>" has its kind (a..b) and its size (c..d): a
\* word, at least one space, a run of digits
HeaderFields(h) ==
    {q \in (1..Len(h)) \X (1..Len(h)) \X (1..Len(h)) \X (1..Len(h)) :
        /\ q[1] <= q[2] /\ q[2] < q[3] /\ q[3] <= q[4]
        /\ \A i \in 1..(q[1] - 1) : h[i] = SP
        /\ \A i \in q[1]..q[2] : h[i] # SP
        /\ \A i \in (q[2] + 1)..(q[3] - 1) : h[i] = SP
        /\ q[3] > q[2] + 1
        /\ \A i \in q[3]..q[4] : IsDigit(h[i])
        /\ (q[4] = Len(h) \/ ~IsDigit(h[q[4] + 1]))}

\* the file is not "<kind> <size>\0" followed by exactly <size> bytes
Malformed(file) ==
    \/ NoSeparator(file)
    \/ HeaderFields(HeaderBytes(file)) = {}
    \/ \E q \in HeaderFields(HeaderBytes(file)) :
          Atoi(SubSeq(HeaderBytes(file), q[3], q[4])) # Len(file) - FirstNul(file)

\* C17: ReadObject fails and returns no payload whenever the file has no null
\* separator, its header does not parse, or the size the header declares is not
\* the number of bytes after the separator.
C17_MalformedObjectFails ==
    (last.op = "read" /\ last.hash \in DOMAIN objects /\ Malformed(objects[last.hash])) =>
        (last.err # "ok" /\ last.kind = <<>> /\ last.data = <<>>)

\* C17's case: an object whose header declares a size that its payload does not
\* have was read
C17_Witness ==
    /\ last.op = "read" /\ last.hash \in DOMAIN objects
    /\ ~NoSeparator(objects[last.hash])
    /\ HeaderFields(HeaderBytes(objects[last.hash])) # {}
    /\ Malformed(objects[last.hash])
    /\ last.err = "object size mismatch"

-----------------------------------------------------------------------------
(* The working tree: the add and status commands *)

\* a path below the repository root, one sequence of bytes per component
AssetsDir == <<"assets">>
StringsID == <<"1", "0", "3", "0", "0", "0", "2">>
MetaName == <<"meta.json">>
AssetFile == <<AssetsDir, StringsID, <<"en.txt">>>>
PlainFile == <<<<"notes.txt">>>>
WorkPaths == {AssetFile, PlainFile}

\* what the user's editor writes to a file, first and later
Contents == <<<<"hi">>, <<"hi!">>>>

\* assetTypeMap
assetTypeMap ==
    (1000624 :> "flash_image") @@ (1030002 :> "string") @@ (1010042 :> "loading_screen")
    @@ (1000083 :> "xml_treasure") @@ (1000087 :> "xml_zone_transition")
    @@ (1000090 :> "xml_resurrection") @@ (1000635 :> "usm_video") @@ (1000636 :> "image")
    @@ (1070003 :> "playfield") @@ (1010013 :> "map") @@ (1010210 :> "image")
    @@ (1010211 :> "image") @@ (1000623 :> "text") @@ (1066603 :> "texture")
    @@ (1020001 :> "unknown") @@ (1020002 :> "sound_effect") @@ (1020005 :> "music")
    @@ (1020006 :> "sound_tone") @@ (1010207 :> "particle_effect")
    @@ (1000010 :> "file_index") @@ (1000007 :> "physx_xml")
    @@ (1020003 :> "dialog_audio") @@ (1010008 :> "misc_image")

\* getAssetTypeFromID that has no type for an id outside the table
getAssetTypeFromID_EmptyForUnknown(id) ==
    IF id \in DOMAIN assetTypeMap THEN assetTypeMap[id] ELSE ""

\* getAssetTypeFromID: the table's type, "unknown" for an id outside the table
getAssetTypeFromID(id) ==
    IF id \in DOMAIN assetTypeMap THEN assetTypeMap[id] ELSE "unknown"

\* strconv.Atoi of a path component: an optional sign, then digits only
StrconvAtoi(part) ==
    LET signed == Len(part) > 0 /\ part[1] \in {"+", "-"}
        digits == IF signed THEN Tail(part) ELSE part
    IN  IF Len(digits) = 0 \/ \E i \in 1..Len(digits) : ~IsDigit(digits[i])
        THEN [ok |-> FALSE, n |-> 0]
        ELSE [ok |-> TRUE,
              n |-> IF signed /\ part[1] = "-" THEN 0 - Atoi(digits) ELSE Atoi(digits)]

\* isAssetPath: the path is assets/<numeric id>/...
isAssetPath(path) ==
    /\ Len(path) >= 2
    /\ path[1] = AssetsDir
    /\ StrconvAtoi(path[2]).ok

\* filepath.Dir
Dir(path) == SubSeq(path, 1, Len(path) - 1)

\* findAssetDirectory: the nearest directory above the file that holds a
\* meta.json or is assets/<id>; <<>> when there is none
RECURSIVE findAssetDirectoryFrom(_, _)
findAssetDirectoryFrom(wt, dir) ==
    IF Len(dir) = 0 THEN <<>>
    ELSE IF Append(dir, MetaName) \in DOMAIN wt THEN dir
    ELSE IF Len(dir) >= 2 /\ dir[1] = AssetsDir /\ StrconvAtoi(dir[2]).ok THEN dir
    ELSE findAssetDirectoryFrom(wt, Dir(dir))

findAssetDirectory(wt, path) == findAssetDirectoryFrom(wt, Dir(path))

\* the id that addPath takes from "assets/<id>/..." when --id is not given
IDFromParts(parts, assetID) ==
    IF Len(parts) >= 2 /\ parts[1] = AssetsDir /\ assetID = 0 /\ StrconvAtoi(parts[2]).ok
    THEN StrconvAtoi(parts[2]).n
    ELSE assetID

\* createOrUpdateMetadata that appends an entry to the asset's meta.json
createOrUpdateMetadata_Appends(wt, path, assetType, assetID, assetName) ==
    IF path \notin DOMAIN wt THEN [err |-> "failed to stat path", worktree |-> wt]
    ELSE LET metaPath == Append(Dir(path), MetaName)
             was == IF metaPath \in DOMAIN wt THEN wt[metaPath] ELSE <<>>
         IN  [err |-> "ok",
              worktree |-> Put(wt, metaPath, was \o <<"type", assetType, "name", assetName>>)]

\* createOrUpdateMetadata: the asset directory is looked up, the metadata is
\* put together, and nothing is written
createOrUpdateMetadata(wt, path, assetType, assetID, assetName) ==
    IF path \notin DOMAIN wt THEN [err |-> "failed to stat path", worktree |-> wt]
    ELSE [err |-> "ok", worktree |-> wt]

\* addPath: one path is staged
addPath(wt, path, addType, addID, addName) ==
    LET id1 == IF addType = "" \/ addID = 0 THEN IDFromParts(path, addID) ELSE addID
        assetDir == findAssetDirectory(wt, path)
        id2 == IF (addType = "" \/ addID = 0) /\ (addType = "" \/ id1 = 0)
                  /\ Len(assetDir) > 0
               THEN IDFromParts(assetDir, id1) ELSE id1
        type == IF addType = "" /\ id2 # 0 THEN getAssetTypeFromID(id2) ELSE addType
        meta == createOrUpdateMetadata(wt, path, type, id2, addName)
    IN  IF path \notin DOMAIN wt
        THEN [err |-> "path does not exist", worktree |-> wt, added |-> <<>>]
        ELSE IF type = ""
        THEN [err |-> "asset type not specified and could not be determined from path",
              worktree |-> wt, added |-> <<>>]
        ELSE IF meta.err # "ok"
        THEN [err |-> "failed to create/update metadata", worktree |-> wt, added |-> <<>>]
        ELSE [err |-> "ok", worktree |-> meta.worktree,
              added |-> <<[path |-> path, type |-> type, id |-> id2]>>]

\* the loop of runAdd over the asset paths it resolved
RECURSIVE addPaths(_, _, _, _, _)
addPaths(wt, paths, addType, addID, addName) ==
    IF Len(paths) = 0 THEN [err |-> "ok", worktree |-> wt, added |-> <<>>]
    ELSE LET one == addPath(wt, Head(paths), addType, addID, addName)
             rest == addPaths(one.worktree, Tail(paths), addType, addID, addName)
         IN  IF one.err # "ok" THEN one
             ELSE [rest EXCEPT !.added = one.added \o rest.added]

\* ResolvePaths that gives up at the first path that is not an asset path
RECURSIVE ResolvePaths_StopsAtSkip(_, _)
ResolvePaths_StopsAtSkip(wt, args) ==
    IF Len(args) = 0 THEN <<>>
    ELSE IF Head(args) \in DOMAIN wt /\ ~isAssetPath(Head(args)) THEN <<>>
    ELSE (IF Head(args) \in DOMAIN wt THEN <<Head(args)>> ELSE <<>>)
         \o ResolvePaths_StopsAtSkip(wt, Tail(args))

\* filepath.Glob of each argument, then the filter on asset paths
RECURSIVE ResolvePaths(_, _)
ResolvePaths(wt, args) ==
    IF Len(args) = 0 THEN <<>>
    ELSE (IF Head(args) \in DOMAIN wt /\ isAssetPath(Head(args)) THEN <<Head(args)>>
          ELSE <<>>) \o ResolvePaths(wt, Tail(args))

\* runAdd: the add command
runAdd(wt, cfg, args, addType, addID, addName) ==
    IF Len(args) = 0 THEN [err |-> "no paths specified", worktree |-> wt, added |-> <<>>]
    ELSE IF ~IsRepository(cfg)
    THEN [err |-> "not an RDB repository", worktree |-> wt, added |-> <<>>]
    ELSE IF ~LoadConfig(cfg).ok
    THEN [err |-> "failed to open repository", worktree |-> wt, added |-> <<>>]
    ELSE addPaths(wt, ResolvePaths(wt, args), addType, addID, addName)

\* runStatus: the status command; what it reports as changed, and whether it
\* prints that the working tree is clean
runStatus(hd, rf, cfg, porcelain) ==
    LET cur == GetCurrentCommit(hd, rf)
        failed(msg) == [err |-> msg, report |-> <<>>, clean |-> FALSE]
    IN  IF ~IsRepository(cfg) THEN failed("not an RDB repository")
        ELSE IF ~LoadConfig(cfg).ok THEN failed("failed to open repository")
        ELSE IF GetCurrentBranch(hd).err # "ok" THEN failed("failed to get current branch")
        ELSE IF cur.err # "ok" THEN failed("failed to get current commit")
        ELSE [err |-> "ok", report |-> <<>>, clean |-> ~porcelain]


\* the --type, --id and --name flags of the add commands the model runs
AddFlags ==
    {[type |-> "", id |-> 0, name |-> ""],
     [type |-> "text", id |-> 1030002, name |-> "Intro"]}

\* init was the first operation, and the user has put two files in the working tree
InitWork ==
    LET out == runInit(<<>>, <<>>, ABSENT, ABSENT, "tree", <<"text", "audio">>, 0, 0,
                       NoFault)
    IN  /\ objects = out.objects
        /\ refs = out.refs
        /\ head = out.head
        /\ config = out.config
        /\ clock = 0
        /\ last = NoLast
        /\ hist = <<>>
        /\ nops = 1
        /\ nfaults = 0
        /\ procs = NoProcs
        /\ worktree = (AssetFile :> Contents[1]) @@ (PlainFile :> Contents[1])
        /\ staged = <<>>

\* the user creates a file of the working tree, or writes its later content
EditFile ==
    /\ \E path \in WorkPaths, i \in 1..Len(Contents) :
        /\ path \in DOMAIN worktree => \E j \in 1..(i - 1) : worktree[path] = Contents[j]
        /\ worktree' = Put(worktree, path, Contents[i])
        /\ last' = [NoLast EXCEPT !.op = "edit", !.path = path]
    /\ UNCHANGED <<objects, refs, head, config, clock, hist, nops, nfaults, procs, staged>>

\* rdb add <path>
RunAdd ==
    /\ nops < MaxOps
    /\ nops' = nops + 1
    /\ \E path \in WorkPaths, flags \in AddFlags :
        LET out == runAdd(worktree, config, <<path>>, flags.type, flags.id, flags.name)
            accepted == {out.added[i].path : i \in 1..Len(out.added)}
        IN  /\ worktree' = out.worktree
            /\ staged' = [q \in DOMAIN staged \cup accepted |->
                            IF q \in accepted
                            THEN [content |-> worktree[q], committed |-> FALSE]
                            ELSE staged[q]]
            /\ last' = [NoLast EXCEPT !.op = "add", !.err = out.err, !.path = path,
                                      !.report = out.added, !.kind = flags.type,
                                      !.again = /\ last.op = "add" /\ last.err = "ok"
                                                /\ last.path = path
                                                /\ last.kind = flags.type
                                                /\ Len(last.report) > 0]
    /\ UNCHANGED <<objects, refs, head, config, clock, hist, nfaults, procs>>

\* rdb status, with and without --porcelain
RunStatus ==
    /\ \E porcelain \in BOOLEAN :
        LET out == runStatus(head, refs, config, porcelain)
        IN  last' = [NoLast EXCEPT !.op = "status", !.err = out.err,
                                   !.report = out.report, !.clean = out.clean]
    /\ UNCHANGED <<objects, refs, head, config, clock, hist, nops, nfaults, procs,
                   worktree, staged>>

NextWork == EditFile \/ RunAdd \/ RunCommit \/ RunStatus

SpecWork == InitWork /\ [][NextWork]_vars

\* add accepted the path, a commit followed, and the file's content is no
\* longer what it was when it was added
CommittedThenModified(path) ==
    /\ path \in DOMAIN staged /\ staged[path].committed
    /\ path \in DOMAIN worktree /\ worktree[path] # staged[path].content

\* C18: status reflects working-tree changes.  When status runs after a staged
\* and committed file was modified on disk, it reports that path and does not
\* say the working tree is clean.
C18_StatusReportsModified ==
    (last.op = "status" /\ last.err = "ok") =>
        \A path \in WorkPaths :
            CommittedThenModified(path) =>
                /\ \E i \in 1..Len(last.report) : last.report[i] = path
                /\ ~last.clean

\* C20: stage is idempotent.  An add that follows a successful add of the same
\* path with the same flags, the file unchanged in between, leaves objects,
\* refs, HEAD, config, the working tree's metadata and the staged paths as the
\* first add left them.
C20_AddIdempotent ==
    [][(last'.op = "add" /\ last'.again) =>
           /\ last'.err = "ok"
           /\ last'.report = last.report
           /\ objects' = objects /\ refs' = refs /\ head' = head /\ config' = config
           /\ worktree' = worktree /\ staged' = staged]_vars

\* C20's case: the asset file was added twice in a row
C20_Witness ==
    /\ last.op = "add" /\ last.again /\ last.err = "ok"
    /\ last.path = AssetFile
    /\ AssetFile \in DOMAIN staged

-----------------------------------------------------------------------------
(* The diff command, asked for the changes between two trees *)

\* the entry names of the model, in their sort order
NameOrder == <<"a", "b", "x">>

\* the entries a tree of the model may hold under each name
EntryChoices ==
    [a |-> {EntryA, [EntryA EXCEPT !.object = Sha256Hex(<<"y">>)],
            [EntryA EXCEPT !.type = "tree"]},
     b |-> {EntryB},
     x |-> {[name |-> "x", type |-> "blob", object |-> Sha256Hex(<<"x">>)]}]

\* the entry lists sorted by name, no name twice, over the first n names
RECURSIVE SortedTrees(_)
SortedTrees(n) ==
    IF n = 0 THEN {<<>>}
    ELSE SortedTrees(n - 1) \cup
         {Append(t, e) : t \in SortedTrees(n - 1), e \in EntryChoices[NameOrder[n]]}

Change(name, changeKind) == [path |-> name, changeKind |-> changeKind]

\* the subcommands registered on rootCmd
Commands == {"init", "status", "add", "commit", "log", "list", "cd", "build"}

\* rootCmd.Execute for a subcommand name: cobra refuses a name that no
\* AddCommand registered
Execute(name) == IF name \in Commands THEN "ok" ELSE "unknown command"

\* rdb diff of two trees: what the command returns and the changes it lists
RunDiff ==
    /\ \E treeA \in SortedTrees(Len(NameOrder)), treeB \in SortedTrees(Len(NameOrder)) :
        last' = [NoLast EXCEPT !.op = "diff", !.err = Execute("diff"),
                               !.entries = treeA, !.data = treeB, !.report = <<>>]
    /\ UNCHANGED <<objects, refs, head, config, clock, hist, nops, nfaults, procs,
                   worktree, staged>>

SpecDiff == InitStore /\ [][RunDiff]_vars

\* treeB is treeA and one more entry, under a name treeA does not have
OneAdded(treeA, treeB, e) ==
    /\ e \in EntrySet(treeB)
    /\ \A f \in EntrySet(treeA) : f.name # e.name
    /\ EntrySet(treeB) = EntrySet(treeA) \cup {e}

\* C19: diff correctness.  The diff of a tree with itself is empty, and the diff
\* of a tree with the same tree plus one file x is the single change (x, added).
C19_DiffCorrect ==
    (last.op = "diff") =>
        /\ last.err = "ok"
        /\ last.entries = last.data => last.report = <<>>
        /\ \A e \in EntrySet(last.data) :
              OneAdded(last.entries, last.data, e) =>
                  last.report = <<Change(e.name, "added")>>

-----------------------------------------------------------------------------
(* The add command run on several paths at once *)

ZeroID == <<"0">>
NegativeID == <<"-", "5">>
ZeroFile == <<AssetsDir, ZeroID, <<"x.txt">>>>
NegativeFile == <<AssetsDir, NegativeID, <<"x.txt">>>>
WordFile == <<AssetsDir, <<"a", "b", "c">>, <<"x.txt">>>>
MissingFile == <<AssetsDir, StringsID, <<"gone.txt">>>>

\* the arguments of the add commands the model runs
AddPaths == {AssetFile, PlainFile, ZeroFile, NegativeFile, WordFile, MissingFile}

\* the second --id value is the flag's default: no --id given
AddFlagsAll ==
    AddFlags \cup {[type |-> "text", id |-> 0, name |-> ""],
                   [type |-> "", id |-> 0 - 5, name |-> ""],
                   [type |-> "text", id |-> 0 - 5, name |-> ""]}

\* the longest argument list of an add command of the model
MaxArgs == 2

\* the paths runAdd reports with "Skipping non-asset path"
RECURSIVE SkippedPaths(_, _)
SkippedPaths(wt, args) ==
    IF Len(args) = 0 THEN <<>>
    ELSE (IF Head(args) \in DOMAIN wt /\ ~isAssetPath(Head(args)) THEN <<Head(args)>>
          ELSE <<>>) \o SkippedPaths(wt, Tail(args))

\* init was the first operation, and the working tree holds every file the
\* add commands name but the missing one
InitAdd ==
    LET out == runInit(<<>>, <<>>, ABSENT, ABSENT, "tree", <<"text", "audio">>, 0, 0,
                       NoFault)
    IN  /\ objects = out.objects
        /\ refs = out.refs
        /\ head = out.head
        /\ config = out.config
        /\ clock = 0
        /\ last = NoLast
        /\ hist = <<>>
        /\ nops = 1
        /\ nfaults = 0
        /\ procs = NoProcs
        /\ worktree = [p \in AddPaths \ {MissingFile} |-> Contents[1]]
        /\ staged = <<>>

\* rdb add <path>... with its flags
RunAddArgs ==
    /\ nops < MaxOps
    /\ nops' = nops + 1
    /\ \E args \in SeqsUpTo(AddPaths, MaxArgs), flags \in AddFlagsAll :
        LET out == runAdd(worktree, config, args, flags.type, flags.id, flags.name)
            accepted == {out.added[i].path : i \in 1..Len(out.added)}
        IN  /\ worktree' = out.worktree
            /\ staged' = [q \in DOMAIN staged \cup accepted |->
                            IF q \in accepted
                            THEN [content |-> worktree[q], committed |-> FALSE]
                            ELSE staged[q]]
            /\ last' = [NoLast EXCEPT !.op = "add", !.err = out.err, !.args = args,
                                      !.flags = flags, !.report = out.added,
                                      !.skipped = SkippedPaths(worktree, args)]
    /\ UNCHANGED <<objects, refs, head, config, clock, hist, nfaults, procs>>

SpecAdd == InitAdd /\ [][RunAddArgs]_vars

\* a path segment that is a number: an optional sign and then digits only
NumericSegment(seg) ==
    \E k \in {0, 1} :
        /\ Len(seg) > k
        /\ k = 1 => seg[1] \in {"+", "-"}
        /\ \A i \in (k + 1)..Len(seg) : IsDigit(seg[i])

\* the path is below assets/ and its second segment is a numeric asset ID
UnderNumericAssetDir(path) ==
    Len(path) >= 2 /\ path[1] = AssetsDir /\ NumericSegment(path[2])

\* the arguments that exist and are not asset paths, and the other arguments
NonAssetArgs(wt, args) ==
    SelectSeq(args, LAMBDA p : p \in DOMAIN wt /\ ~UnderNumericAssetDir(p))

OtherArgs(wt, args) ==
    SelectSeq(args, LAMBDA p : ~(p \in DOMAIN wt /\ ~UnderNumericAssetDir(p)))

\* C21: non-asset paths are a soft skip.  An add command reports every existing
\* argument that is not below assets/<numeric id>/ as skipped and adds none of
\* them, and it fails, succeeds and adds exactly as the same command without
\* those arguments does (it succeeds, adding nothing, when no argument is left).
C21_NonAssetSoftSkip ==
    (last.op = "add" /\ Len(last.args) > 0) =>
        LET others == OtherArgs(worktree, last.args)
            alone == runAdd(worktree, config, others, last.flags.type, last.flags.id,
                            last.flags.name)
        IN  /\ last.skipped = NonAssetArgs(worktree, last.args)
            /\ \A i \in 1..Len(last.report) :
                  \A j \in 1..Len(last.skipped) : last.report[i].path # last.skipped[j]
            /\ Len(others) = 0 => (last.err = "ok" /\ last.report = <<>>)
            /\ Len(others) > 0 => (last.err = alone.err /\ last.report = alone.added)

\* C21's case: one command named a file outside assets/ and then an asset file;
\* the first was skipped and the second added
C21_Witness ==
    /\ last.op = "add" /\ last.err = "ok"
    /\ last.args = <<PlainFile, AssetFile>>
    /\ last.skipped = <<PlainFile>>
    /\ Len(last.report) = 1 /\ last.report[1].path = AssetFile


\* C22: asset ids must be positive.  Whatever an add command adds has an id,
\* taken from assets/<n>/ or from --id, that is greater than zero; a path whose
\* id is zero or negative is not among the paths the command staged.
C22_AssetIdsPositive ==
    (last.op = "add" /\ Len(last.args) > 0) =>
        \A i \in 1..Len(last.report) :
            /\ last.report[i].id > 0
            /\ last.report[i].path \in DOMAIN staged

-----------------------------------------------------------------------------
(* getAssetTypeFromID called on its own *)

\* how far from a key of the table the ids of the model go
MaxIDOffset == 2

\* the ids the model resolves: the keys of the table, the ids next to them,
\* the ids around zero
TypeIDs ==
    {k + d : k \in DOMAIN assetTypeMap \cup {0}, d \in (0 - MaxIDOffset)..MaxIDOffset}

\* getAssetTypeFromID(id)
CallGetAssetTypeFromID ==
    /\ nops < MaxOps
    /\ nops' = nops + 1
    /\ \E id \in TypeIDs :
        last' = [NoLast EXCEPT !.op = "type", !.err = "ok", !.id = id,
                               !.assetType = getAssetTypeFromID(id)]
    /\ UNCHANGED <<objects, refs, head, config, clock, hist, nfaults, procs, worktree,
                   staged>>

SpecType == InitAdd /\ [][CallGetAssetTypeFromID]_vars

\* the rows of the table, as the source lists them
TypeTable ==
    {<<1000624, "flash_image">>, <<1030002, "string">>, <<1010042, "loading_screen">>,
     <<1000083, "xml_treasure">>, <<1000087, "xml_zone_transition">>,
     <<1000090, "xml_resurrection">>, <<1000635, "usm_video">>, <<1000636, "image">>,
     <<1070003, "playfield">>, <<1010013, "map">>, <<1010210, "image">>,
     <<1010211, "image">>, <<1000623, "text">>, <<1066603, "texture">>,
     <<1020001, "unknown">>, <<1020002, "sound_effect">>, <<1020005, "music">>,
     <<1020006, "sound_tone">>, <<1010207, "particle_effect">>,
     <<1000010, "file_index">>, <<1000007, "physx_xml">>, <<1020003, "dialog_audio">>,
     <<1010008, "misc_image">>}

\* C23 (total): a call returns the table's type for an id the table has and
\* "unknown" for any other id, never the empty string.
C23_ResolvesEveryID ==
    (last.op = "type") =>
        /\ last.assetType # ""
        /\ \A row \in TypeTable : row[1] = last.id => last.assetType = row[2]
        /\ (\A row \in TypeTable : row[1] # last.id) => last.assetType = "unknown"

\* C23 (deterministic): a call that follows a call for the same id returns the
\* same type.
C23_SameTypeAgain ==
    (last.op = "type" /\ last'.op = "type" /\ last'.id = last.id) =>
        last'.assetType = last.assetType

\* C23: type resolution is total and deterministic.  For every id
\* getAssetTypeFromID returns the table's type or the sentinel "unknown", and
\* the same type on every call.
C23_TypeResolution == [](C23_ResolvesEveryID) /\ [][C23_SameTypeAgain]_vars

\* C23's case: an id the table does not have was resolved twice in a row
C23_Witness ==
    /\ last.op = "type" /\ nops = MaxOps
    /\ last.id = 1030002 + MaxIDOffset
    /\ last.assetType = "unknown"

-----------------------------------------------------------------------------
(* The repository API of the tests: NewRepository(path).Init, IsRepository,  *)
(* OpenRepository                                                           *)

\* the directory the calls are made on
RepoPath == "repo"

\* the types argument of Init
InitTypeLists == {<<>>, <<"text">>, <<"text", "audio">>}

NotARepository == "not an RDB repository"

NoRepository(msg) == [err |-> msg, path |-> "", layout |-> "", types |-> <<>>]

\* OpenRepository without the IsRepository check
OpenRepository_LoadOnly(path, cfg) ==
    IF ~LoadConfig(cfg).ok THEN NoRepository("failed to load repository config")
    ELSE [err |-> "ok", path |-> path, layout |-> LoadConfig(cfg).layout,
          types |-> LoadConfig(cfg).types]

\* OpenRepository: the Repository it returns, or the error
OpenRepository(path, cfg) ==
    IF ~IsRepository(cfg) THEN NoRepository(NotARepository)
    ELSE IF ~LoadConfig(cfg).ok THEN NoRepository("failed to load repository config")
    ELSE [err |-> "ok", path |-> path, layout |-> LoadConfig(cfg).layout,
          types |-> LoadConfig(cfg).types]

\* NewRepository(path).Init(layout, types)
CallInit ==
    /\ nops < MaxOps
    /\ \E layout \in Layouts, types \in InitTypeLists, t1 \in clock..MaxClock,
          fault \in {NoFault} \cup InitFaults :
        \E t2 \in t1..MaxClock :
            LET out == RepositoryInit(objects, refs, head, config, layout, types, t1, t2,
                                      fault)
            IN  /\ Injected(fault, out)
                /\ objects' = out.objects
                /\ refs' = out.refs
                /\ head' = out.head
                /\ config' = out.config
                /\ clock' = t2
                /\ last' = [NoLast EXCEPT !.op = "Init", !.err = out.err,
                                          !.failedAt = out.failedAt, !.hash = out.hash,
                                          !.repoPath = RepoPath, !.layout = layout,
                                          !.types = types]
                /\ nfaults' = IF fault.step = "none" THEN nfaults ELSE nfaults + 1
    /\ nops' = nops + 1
    /\ UNCHANGED <<hist, procs, worktree, staged>>

\* IsRepository(path) and then OpenRepository(path)
CallOpenRepository ==
    /\ LET out == OpenRepository(RepoPath, config)
       IN  last' = [NoLast EXCEPT !.op = "open", !.err = out.err,
                                  !.isRepository = IsRepository(config),
                                  !.repoPath = out.path, !.layout = out.layout,
                                  !.types = out.types]
    /\ UNCHANGED <<objects, refs, head, config, clock, hist, nops, nfaults, procs,
                   worktree, staged>>

NextOpen == CallInit \/ CallOpenRepository

SpecOpen == Init /\ [][NextOpen]_vars

\* C24 (detection): IsRepository is false before any Init ran and true after an
\* Init that succeeded, and OpenRepository fails with the not-a-repository
\* error exactly when IsRepository is false.
C24_Detects ==
    /\ nops = 0 => ~IsRepository(config)
    /\ (last.op = "Init" /\ last.err = "ok") => IsRepository(config)
    /\ (last.op = "open") => (last.err = NotARepository <=> ~last.isRepository)

\* C24 (round trip): OpenRepository right after an Init that succeeded returns
\* a repository with the path, the layout and the type list of that Init.
C24_OpensWhatInitMade ==
    (last.op = "Init" /\ last.err = "ok" /\ last'.op = "open") =>
        /\ last'.err = "ok"
        /\ last'.repoPath = last.repoPath
        /\ last'.layout = last.layout
        /\ last'.types = last.types

\* C24: repository detection.  IsRepository tells a directory where Init ran
\* from one where it did not, OpenRepository refuses exactly the latter as not
\* a repository, and it returns what Init was given.
C24_RepositoryDetection == [](C24_Detects) /\ [][C24_OpensWhatInitMade]_vars

\* C24's case: a repository made by a second Init, with another type list than
\* the first, was opened
C24_Witness ==
    /\ last.op = "open" /\ last.err = "ok" /\ last.isRepository
    /\ last.types = <<"text">>
    /\ nops > 1 /\ nfaults = 0

-----------------------------------------------------------------------------
(* The repository under init and commit commands only *)

NextRepo == RunInit \/ RunCommit

SpecRepo == Init /\ [][NextRepo]_vars

OnMain == [err |-> "ok", branch |-> "main"]

\* C25: HEAD names main.  GetCurrentBranch returns "main" right after an init
\* that succeeded, and a commit command, whether it succeeds or fails, leaves
\* HEAD as it was, so that GetCurrentBranch keeps returning "main".
C25_HeadStaysOnMain ==
    [][/\ (last'.op = "init" /\ nops' = nops + 1 /\ last'.err = "ok") =>
              GetCurrentBranch(head') = OnMain
       /\ (last'.op = "commit" /\ nops' = nops + 1) =>
              /\ head' = head
              /\ GetCurrentBranch(head) = OnMain => GetCurrentBranch(head') = OnMain]_vars

\* C25's case: init and then two commits succeeded, and HEAD still names main
C25_Witness ==
    /\ last.op = "commit" /\ last.err = "ok" /\ Len(hist) = 2
    /\ GetCurrentBranch(head) = OnMain


\* C27: no dangling branch ref.  After init and any commit commands, failed
\* ones included, every file under refs/heads holds exactly the hash of a
\* stored object of kind commit.
C27_NoDanglingRef ==
    \A b \in DOMAIN refs :
        /\ refs[b] = <<RefString(refs[b])>>
        /\ IsCommit(objects, RefString(refs[b]))

\* C28: initialization is not observable half-done.  Whenever IsRepository is
\* true, HEAD exists and GetCurrentCommit returns the hash of a stored commit,
\* also in what an Init that failed part-way left behind.
C28_InitAllOrNothing ==
    IsRepository(config) =>
        /\ head # ABSENT
        /\ GetCurrentCommit(head, refs).err = "ok"
        /\ IsCommit(objects, GetCurrentCommit(head, refs).hash)

-----------------------------------------------------------------------------
(* GenerateID called on its own, between calls of Init *)

\* GenerateID(): the clock is read, it may or may not have advanced
CallGenerateID ==
    /\ nops < MaxOps
    /\ nops' = nops + 1
    /\ \E now \in clock..MaxClock :
        /\ clock' = now
        /\ last' = [NoLast EXCEPT !.op = "GenerateID", !.err = "ok",
                                  !.genID = generateID(now),
                                  !.genIDLen = generateIDLen]
    /\ UNCHANGED <<objects, refs, head, config, hist, nfaults, procs, worktree, staged>>

NextID == CallInit \/ CallGenerateID

SpecID == Init /\ [][NextID]_vars

\* C26: GenerateID returns 16 characters, and a call that directly follows
\* another returns a different id, also when the clock did not advance between
\* the two.
C26_IDsDiffer ==
    [][(last'.op = "GenerateID" /\ nops' = nops + 1) =>
           /\ last'.genIDLen = 16
           /\ last.op = "GenerateID" => last'.genID # last.genID]_vars

-----------------------------------------------------------------------------
(* A repository with a second branch: branches are created and switched by   *)
(* operations outside the commands modelled here, commits are made on the   *)
(* branch HEAD names                                                        *)

Branches == {"main", "dev"}

\* a branch is created at the current commit: refs/heads/<branch> is written
CreateBranch ==
    /\ GetCurrentCommit(head, refs).err = "ok"
    /\ IsCommit(objects, GetCurrentCommit(head, refs).hash)
    /\ \E b \in Branches \ DOMAIN refs :
        /\ refs' = Put(refs, b, <<GetCurrentCommit(head, refs).hash>>)
        /\ last' = [NoLast EXCEPT !.op = "branch"]
    /\ UNCHANGED <<objects, head, config, clock, hist, nops, nfaults, procs, worktree,
                   staged>>

\* HEAD is pointed at another existing branch
SwitchBranch ==
    /\ \E b \in DOMAIN refs :
        /\ head # HeadRef(b)
        /\ head' = HeadRef(b)
        /\ last' = [NoLast EXCEPT !.op = "switch"]
    /\ UNCHANGED <<objects, refs, config, clock, hist, nops, nfaults, procs, worktree,
                   staged>>

NextBranches == RunCommit \/ CreateBranch \/ SwitchBranch

SpecBranches == InitStore /\ [][NextBranches]_vars

\* C29: frame of commit.  A commit that succeeds leaves HEAD and the config as
\* they were, removes and changes no stored object, rewrites the ref of the
\* branch HEAD names to the new commit and no other ref, and stores that branch
\* in the commit object.
C29_CommitFrame ==
    [][(last'.op = "commit" /\ nops' = nops + 1 /\ last'.err = "ok") =>
           /\ head' = head
           /\ config' = config
           /\ \A h \in DOMAIN objects :
                 /\ h \in DOMAIN objects'
                 /\ readObject(objects, h).err = "ok" =>
                        readObject(objects', h) = readObject(objects, h)
           /\ DOMAIN refs' = DOMAIN refs \cup {GetCurrentBranch(head).branch}
           /\ \A b \in DOMAIN refs \ {GetCurrentBranch(head).branch} : refs'[b] = refs[b]
           /\ refs'[GetCurrentBranch(head).branch] = <<last'.hash>>
           /\ IsCommit(objects', last'.hash)
           /\ CommitAt(objects', last'.hash).branch = GetCurrentBranch(head).branch]_vars

\* C29's case: a commit succeeded on dev while main stayed at another commit
C29_Witness ==
    /\ last.op = "commit" /\ last.err = "ok"
    /\ GetCurrentBranch(head) = [err |-> "ok", branch |-> "dev"]
    /\ DOMAIN refs = Branches
    /\ refs["dev"] = <<last.hash>>
    /\ refs["main"] # refs["dev"]

-----------------------------------------------------------------------------
(* The commit graph *)

\* the object stored under h reads back as a tree
IsTree(obs, h) == readObject(obs, h).err = "ok" /\ readObject(obs, h).objType = tree

\* following parent links from h ends at a commit without a parent, within as
\* many steps as there are objects and so without coming back to a commit
RECURSIVE EndsAtRoot(_, _, _)
EndsAtRoot(obs, h, fuel) ==
    /\ IsCommit(obs, h)
    /\ \/ CommitAt(obs, h).parent = ""
       \/ fuel > 0 /\ EndsAtRoot(obs, CommitAt(obs, h).parent, fuel - 1)

\* C30: referential integrity of the commit graph.  Every stored commit names
\* a stored tree and has no parent or a stored commit as parent, and the parent
\* links from every branch ref end at a parentless commit without a cycle.
C30_GraphIntegrity ==
    /\ \A h \in DOMAIN objects :
          IsCommit(objects, h) =>
              /\ IsTree(objects, CommitAt(objects, h).tree)
              /\ CommitAt(objects, h).parent # "" =>
                     IsCommit(objects, CommitAt(objects, h).parent)
    /\ \A b \in DOMAIN refs :
          EndsAtRoot(objects, RefString(refs[b]), Cardinality(DOMAIN objects))
=============================================================================
